---- MODULE Spec2Model ----
(***************************************************************************)
(* Token issuance and refresh-token rotation of the auth service           *)
(* (services/auth_service/application/security.py and services.py) and the *)
(* bearer-token verification of the downstream services                    *)
(* (services/transaction_service/presentation/dependencies.py).            *)
(*                                                                         *)
(* Time is counted in seconds.  A text string is a sequence of items, each *)
(* a word or the separator SP; the empty string is <<>>, and NoneStr is an  *)
(* absent Optional[str].  The n-th draw of token_urlsafe(48) is the secret  *)
(* <<"urlsafe", n>>; ForgedToken is a string no draw ever produced.         *)
(***************************************************************************)
EXTENDS Integers, Sequences, FiniteSets, TLC

VARIABLES
    _refresh_tokens,   \* JWTService._refresh_tokens: hash -> RefreshSession
    now,               \* datetime.now(timezone.utc), in seconds
    ticks,             \* number of clock advances so far
    issued,            \* one record per token bundle minted, in order of minting
    taken,             \* per refresh token string: the operation that took its session
    pc,                \* per request: where its handler stands
    frame,             \* per request: the locals of a rotate_refresh_token in progress
    AUTH_JWT_AUDIENCE, \* the environment variable the services read
    _clients,          \* AuthService._clients: client_id -> OAuthClient
    request,           \* downstream service: the HTTP request being handled
    stage,             \* downstream service: where the handling of the request stands
    response,          \* downstream service: the response to the latest request
    database,          \* downstream services: the transactions and the accounts
    invoked,           \* the service operation the request's endpoint has invoked
    decision           \* the latest call of a require_scopes / require_roles dependency

\* The state of the auth service and the state of the downstream services.
auth == <<_refresh_tokens, now, ticks, issued, taken, pc, frame, AUTH_JWT_AUDIENCE,
          _clients>>
downstream == <<request, stage, response, database, invoked, decision>>

vars == <<auth, downstream>>

(***************************************************************************)
(* Bounds of the model.                                                    *)
(***************************************************************************)
MaxTokens == 3      \* token bundles minted (draws of token_urlsafe)
MaxIssues == 2      \* of which by issue_tokens
MaxTicks == 1       \* clock advances
MaxRows == 2        \* rows ever created in a table of a downstream service

Requests == {"req1", "req2"}

None == "None"
NoneStr == <<None>>
NoneInt == <<>>
NoSession == [absent |-> TRUE]
NoToken == <<>>
SP == " "
ForgedToken == <<"forged">>
token_urlsafe(n) == <<"urlsafe", n>>

(***************************************************************************)
(* JWTSettings defaults (seconds).                                         *)
(***************************************************************************)
access_token_ttl == 900
refresh_token_ttl == 604800
issuer == "https://auth-service.local"
key_id == "auth-service-key"
private_key == "auth_service.key"
public_key == "auth_service.crt"

TickSteps == {access_token_ttl, refresh_token_ttl}

(***************************************************************************)
(* The pydantic models of schemas.py.  A model keeps the keyword arguments *)
(* that name one of its declared fields and ignores the others; reading an *)
(* attribute the model does not have raises AttributeError.                *)
(***************************************************************************)
OAuthClientFields ==
    {"client_id", "client_name", "description", "scopes", "allowed_grant_types"}

TokenRequestMetaFields == {"client_id", "grant_type", "requested_scope", "audience"}

\* BaseModel.__init__(**kwargs) with the default extra="ignore"
BaseModel(fields, kwargs) == [f \in (DOMAIN kwargs) \cap fields |-> kwargs[f]]

\* OAuthClient(**kwargs)
OAuthClient(kwargs) == BaseModel(OAuthClientFields, kwargs)

\* hasattr(obj, name)
hasattr(obj, name) == name \in DOMAIN obj

(***************************************************************************)
(* The client registry of get_auth_clients.                                *)
(***************************************************************************)
get_auth_clients ==
    <<OAuthClient(
          [client_id |-> "web-portal",
           client_name |-> "Retail Web Portal",
           description |-> "First-party web experience",
           scopes |-> <<"accounts:read", "transactions:read">>,
           allowed_grant_types |-> <<"password", "client_credentials">>,
           roles |-> <<"customer">>]),
      OAuthClient(
          [client_id |-> "payments-gateway",
           client_name |-> "Payments Gateway",
           description |-> "Handles card transactions for merchant partners",
           scopes |-> <<"transactions:write", "transactions:read">>,
           allowed_grant_types |-> <<"client_credentials">>,
           roles |-> <<"payments">>]),
      OAuthClient(
          [client_id |-> "risk-engine",
           client_name |-> "Risk Engine",
           description |-> "Performs fraud detection and risk scoring",
           scopes |-> <<"transactions:read", "accounts:read">>,
           allowed_grant_types |-> <<"client_credentials">>,
           roles |-> <<"risk">>])>>

(***************************************************************************)
(* Strings, lists and sets as Python computes them.                        *)
(***************************************************************************)
Words == {"accounts:read", "transactions:read", "transactions:write"}

\* The code-point order of the words and role names the model uses.
Lexicographic ==
    <<"accounts:read", "customer", "payments", "risk",
      "transactions:read", "transactions:write">>

Rank(w) == CHOOSE i \in DOMAIN Lexicographic : Lexicographic[i] = w

\* set(list)
set(seq) == {seq[i] : i \in DOMAIN seq}

\* str.split(): the words between runs of whitespace
split(s) == SelectSeq(s, LAMBDA x : x # SP)

RECURSIVE sorted(_)
\* sorted(set): ascending list
sorted(S) ==
    IF S = {} THEN <<>>
    ELSE LET m == CHOOSE x \in S : \A y \in S : Rank(x) <= Rank(y)
         IN <<m>> \o sorted(S \ {m})

RECURSIVE join(_)
\* " ".join(list)
join(seq) ==
    IF Len(seq) = 0 THEN <<>>
    ELSE IF Len(seq) = 1 THEN <<seq[1]>>
    ELSE <<seq[1], SP>> \o join(Tail(seq))

\* Python truthiness of an Optional[str]
truthy(s) == s # NoneStr /\ s # <<>>

(***************************************************************************)
(* Inputs of the calls.                                                    *)
(***************************************************************************)
\* Scope strings a caller may send: absent, empty, one word, two words unsorted.
ScopeStrings ==
    {NoneStr, <<>>, <<"transactions:read">>, <<"accounts:read">>,
     <<"transactions:write">>, <<"transactions:write", SP, "transactions:read">>}

ClientIds == {"web-portal", "payments-gateway", None, "unknown-client"}
GrantTypes == {"password", "client_credentials"}
Audiences == {None}
EnvAudiences == {None, "fintech-api"}
ExpiresIn == {NoneInt, <<0>>, <<86400>>}

\* TokenRequestMeta(client_id=..., grant_type=..., requested_scope=..., audience=...)
TokenRequestMeta ==
    {BaseModel(TokenRequestMetaFields, kwargs) :
        kwargs \in [client_id : ClientIds, grant_type : GrantTypes,
                    requested_scope : ScopeStrings, audience : Audiences]}

\* The arguments of the calls of JWTService.issue_tokens: a registered client with
\* all, some or one of its scopes, roles sorted or not, no scope at all, an audience of
\* the caller's choice, and a client and scope no registry entry covers.
IssueArgs ==
    {[subject |-> "alice", client_id |-> "web-portal",
      scopes |-> {"accounts:read", "transactions:read"},
      roles |-> <<"customer">>, audience |-> None],
     [subject |-> "alice", client_id |-> "web-portal",
      scopes |-> {"transactions:read"},
      roles |-> <<"risk", "customer">>, audience |-> "fintech-api"],
     [subject |-> "payments-gateway", client_id |-> "payments-gateway",
      scopes |-> {"transactions:write", "transactions:read"},
      roles |-> <<"payments">>, audience |-> None],
     [subject |-> "svc", client_id |-> "payments-gateway",
      scopes |-> {"transactions:write"},
      roles |-> <<"payments">>, audience |-> None],
     [subject |-> "batch", client_id |-> "payments-gateway",
      scopes |-> {},
      roles |-> <<>>, audience |-> None],
     [subject |-> "mallory", client_id |-> "unknown-client",
      scopes |-> {"transactions:write"},
      roles |-> <<"customer">>, audience |-> "other-api"]}

NoArgs == [absent |-> TRUE]

\* Every refresh token string of the model.
Tokens == {ForgedToken} \cup {token_urlsafe(n) : n \in 1..MaxTokens}

\* Refresh token strings a caller may present: every secret drawn so far, and a forgery.
Presentable == {ForgedToken} \cup {token_urlsafe(n) : n \in DOMAIN issued}

NoFrame == [token |-> NoToken, session |-> NoSession]

(***************************************************************************)
(* JWTService (security.py).  A call's outcome is the ValueError message   *)
(* it raises, or None when it returns.                                     *)
(***************************************************************************)
\* Variant: a session expires only after expires_at has passed.
is_expired_late(session) == now > session.expires_at

\* RefreshSession.is_expired
is_expired(session) == now >= session.expires_at

\* hashlib.sha256(token).hexdigest(): injective on the secrets in use, never the secret
_hash_refresh_token(token) == <<"sha256", token>>

\* Variant: the session is stored under the token itself.
_register_refresh_token_plain(store, token, session) ==
    [h \in DOMAIN store \cup {token} |-> IF h = token THEN session ELSE store[h]]

\* self._refresh_tokens[hash(token)] = session
_register_refresh_token(store, token, session) ==
    [h \in DOMAIN store \cup {_hash_refresh_token(token)} |->
        IF h = _hash_refresh_token(token) THEN session ELSE store[h]]

\* Variant: the store is read and the key is left in it.
dict_keep(store, hashed) == store

\* Variant: the pop of one key empties the store.
dict_clear(store, hashed) == [h \in {} |-> store[h]]

\* self._refresh_tokens.pop(hashed, None): the store it leaves
dict_pop(store, hashed) == [h \in DOMAIN store \ {hashed} |-> store[h]]

\* jwt.encode(payload, private_key, "RS256", headers)
jwt_encode(payload, key) ==
    [payload |-> payload, alg |-> "RS256", kid |-> key_id, signed_by |-> key]

\* " ".join(sorted(scope_set)) or None
scope_or_none(scope_set) ==
    IF join(sorted(scope_set)) = <<>> THEN NoneStr ELSE join(sorted(scope_set))

\* The calls in flight that will still draw a token.
Pending == {r \in Requests : pc[r] = "rotating"}

\* Room for one more token bundle, counting the rotations in flight.
Room == Len(issued) + Cardinality(Pending) < MaxTokens

\* issue_tokens: sign an access token, draw a refresh secret, register its session.
issue_tokens(subject, client_id, scopes, roles, audience) ==
    LET issued_at == now
        expires_at == issued_at + access_token_ttl
        scope_set == scopes
        roles_set == set(roles)
        aud_claim == IF audience # None THEN audience ELSE AUTH_JWT_AUDIENCE
        payload == [iss |-> issuer,
                    sub |-> subject,
                    iat |-> issued_at,
                    exp |-> expires_at,
                    scope |-> join(sorted(scope_set)),
                    client_id |-> client_id,
                    roles |-> sorted(roles_set),
                    aud |-> aud_claim]
        access_token == jwt_encode(payload, private_key)
        refresh_token == token_urlsafe(Len(issued) + 1)
        refresh_expires == issued_at + refresh_token_ttl
        session == [subject |-> subject,
                    client_id |-> client_id,
                    scopes |-> scope_set,
                    roles |-> roles_set,
                    expires_at |-> refresh_expires]
        bundle == [access_token |-> access_token,
                   refresh_token |-> refresh_token,
                   expires_in |-> access_token_ttl,
                   issued_at |-> issued_at,
                   scope |-> scope_or_none(scope_set),
                   op |-> "issue",
                   parent |-> NoToken,
                   consumed |-> NoSession,
                   requested_scope |-> scope_set,
                   session |-> session,
                   args |-> [subject |-> subject, client_id |-> client_id,
                             scopes |-> scopes, roles |-> roles,
                             audience |-> audience]]
    IN /\ _refresh_tokens' = _register_refresh_token(_refresh_tokens, refresh_token, session)
       /\ issued' = Append(issued, bundle)

\* What _pop_refresh_token(token) raises in the current store.
_pop_raises(token) ==
    IF _hash_refresh_token(token) \in DOMAIN _refresh_tokens THEN None
    ELSE "Invalid refresh token"

\* _pop_refresh_token, the first step of rotate_refresh_token: one dict.pop.
_pop_refresh_token(r, token) ==
    LET hashed == _hash_refresh_token(token)
    IN \/ /\ _pop_raises(token) = None
          /\ _refresh_tokens' = dict_pop(_refresh_tokens, hashed)
          /\ frame' = [frame EXCEPT ![r] =
                          [token |-> token, session |-> _refresh_tokens[hashed]]]
          /\ pc' = [pc EXCEPT ![r] = "rotating"]
          /\ taken' = [taken EXCEPT ![token] = "rotate"]
       \/ /\ _pop_raises(token) # None
          /\ UNCHANGED <<_refresh_tokens, frame, pc, taken>>

\* The scope set a rotation asks for.
requested_scope_of(session, scope) ==
    IF truthy(scope) THEN set(split(scope)) ELSE session.scopes

\* Variant: the requested scope is not compared with the session's.
rotate_raises_unchecked(session, scope) ==
    IF now >= session.expires_at THEN "Refresh token expired" ELSE None

\* What rotate_refresh_token raises after the pop.
rotate_raises(session, scope) ==
    IF is_expired(session) THEN "Refresh token expired"
    ELSE IF ~(requested_scope_of(session, scope) \subseteq session.scopes)
         THEN "Requested scope exceeds original grant"
    ELSE None

\* Variant: the next session keeps only the requested scopes.
next_session_narrowed(session, requested_scope, refresh_expires) ==
    [subject |-> session.subject,
     client_id |-> session.client_id,
     scopes |-> requested_scope,
     roles |-> session.roles,
     expires_at |-> refresh_expires]

\* Variant: subject and client_id change places in the next session.
next_session_swapped(session, requested_scope, refresh_expires) ==
    [subject |-> session.client_id,
     client_id |-> session.subject,
     scopes |-> session.scopes,
     roles |-> session.roles,
     expires_at |-> refresh_expires]

\* Variant: the next session inherits the window of the consumed one.
next_session_inherited(session, requested_scope, refresh_expires) ==
    [subject |-> session.subject,
     client_id |-> session.client_id,
     scopes |-> session.scopes,
     roles |-> session.roles,
     expires_at |-> session.expires_at]

\* The session rotate_refresh_token registers for the next refresh token.
next_session_of(session, requested_scope, refresh_expires) ==
    [subject |-> session.subject,
     client_id |-> session.client_id,
     scopes |-> session.scopes,
     roles |-> session.roles,
     expires_at |-> refresh_expires]

\* Variant: the requested lifetime is capped at the configured one.
ttl_of_capped(expires_in) ==
    IF expires_in # NoneInt /\ expires_in[1] <= access_token_ttl THEN expires_in[1]
    ELSE access_token_ttl

\* timedelta(seconds=expires_in) if expires_in is not None, else access_token_ttl
ttl_of(expires_in) ==
    IF expires_in # NoneInt THEN expires_in[1] ELSE access_token_ttl

\* rotate_refresh_token after the pop: the checks, the new access token, the new
\* session.  scope and expires_in are first read here, so they are drawn here.
rotate_refresh_token(r, scope, expires_in) ==
    LET session == frame[r].session
        requested_scope == requested_scope_of(session, scope)
        ttl == ttl_of(expires_in)
        issued_at == now
        expires_at == issued_at + ttl
        payload == [iss |-> issuer,
                    sub |-> session.subject,
                    iat |-> issued_at,
                    exp |-> expires_at,
                    scope |-> join(sorted(requested_scope)),
                    client_id |-> session.client_id,
                    roles |-> sorted(session.roles),
                    aud |-> AUTH_JWT_AUDIENCE]
        access_token == jwt_encode(payload, private_key)
        next_refresh_token == token_urlsafe(Len(issued) + 1)
        refresh_expires == issued_at + refresh_token_ttl
        next_session == next_session_of(session, requested_scope, refresh_expires)
        bundle == [access_token |-> access_token,
                   refresh_token |-> next_refresh_token,
                   expires_in |-> ttl,
                   issued_at |-> issued_at,
                   scope |-> scope_or_none(requested_scope),
                   op |-> "rotate",
                   parent |-> frame[r].token,
                   consumed |-> session,
                   requested_scope |-> requested_scope,
                   session |-> next_session,
                   args |-> NoArgs]
    IN /\ pc[r] = "rotating"
       /\ pc' = [pc EXCEPT ![r] = "idle"]
       /\ frame' = [frame EXCEPT ![r] = NoFrame]
       /\ \/ /\ rotate_raises(session, scope) # None
             /\ UNCHANGED <<_refresh_tokens, issued>>
          \/ /\ rotate_raises(session, scope) = None
             /\ _refresh_tokens' =
                    _register_refresh_token(_refresh_tokens, next_refresh_token,
                                            next_session)
             /\ issued' = Append(issued, bundle)
       /\ UNCHANGED <<now, ticks, taken, AUTH_JWT_AUDIENCE, _clients, downstream>>

\* Variant: revoke pops without a default, as _pop_refresh_token does.
revoke_raises_absent(token) == _pop_raises(token)

\* What revoke_refresh_token(token) raises: nothing, pop has a default.
revoke_raises(token) == None

\* Variant: revoke looks the session up and leaves it in the store.
revoke_refresh_token_peek(token) ==
    /\ UNCHANGED _refresh_tokens
    /\ taken' = IF _hash_refresh_token(token) \in DOMAIN _refresh_tokens
                THEN [taken EXCEPT ![token] = "revoke"] ELSE taken

\* Variant: revoke also removes the sessions of the tokens rotated from the token.
revoke_refresh_token_family(token) ==
    LET hashed == _hash_refresh_token(token)
        family == {_hash_refresh_token(issued[j].refresh_token) :
                       j \in {k \in DOMAIN issued : issued[k].parent = token}}
    IN /\ _refresh_tokens' = [h \in DOMAIN _refresh_tokens \ ({hashed} \cup family) |->
                                 _refresh_tokens[h]]
       /\ taken' = IF hashed \in DOMAIN _refresh_tokens
                   THEN [taken EXCEPT ![token] = "revoke"] ELSE taken

\* revoke_refresh_token: pop the hash, absent or not.
revoke_refresh_token(token) ==
    LET hashed == _hash_refresh_token(token)
    IN /\ revoke_raises(token) = None
       /\ _refresh_tokens' = dict_pop(_refresh_tokens, hashed)
       /\ taken' = IF hashed \in DOMAIN _refresh_tokens
                   THEN [taken EXCEPT ![token] = "revoke"] ELSE taken

(***************************************************************************)
(* Bearer-token verification (transaction_service dependencies.py).        *)
(***************************************************************************)
\* The private key whose signatures a public key or certificate verifies.
signing_key_of(key) == IF key = public_key THEN private_key ELSE None

\* _public_key(): the certificate at AUTH_PUBLIC_KEY_PATH
_public_key == public_key

Unauthorized == [status_code |-> "401", detail |-> "Invalid bearer token"]

\* payload.get(claim) or "" / or []: an absent or empty claim reads as empty
or_empty(claim) == IF claim = NoneStr THEN <<>> ELSE claim

\* Variant: the aud claim is compared with the audience even when none is configured.
jwt_decode_raises_always_aud(token, key, audience) ==
    \/ token.alg # "RS256"
    \/ token.signed_by # signing_key_of(key)
    \/ token.payload.exp <= now
    \/ token.payload.aud # audience

\* jwt.decode(token, key, algorithms=["RS256"], options={"verify_aud": bool(audience)},
\* audience=audience) raises a PyJWTError
jwt_decode_raises(token, key, audience) ==
    \/ token.alg # "RS256"
    \/ token.signed_by # signing_key_of(key)
    \/ token.payload.exp <= now
    \/ audience # None /\ token.payload.aud # audience

\* Variant: a bearer token is accepted only while the refresh session minted with
\* it is in the store.
_decode_token_introspecting(token) ==
    IF \/ jwt_decode_raises(token, _public_key, AUTH_JWT_AUDIENCE)
       \/ ~\E i \in DOMAIN issued :
              /\ issued[i].access_token = token
              /\ _hash_refresh_token(issued[i].refresh_token) \in DOMAIN _refresh_tokens
    THEN Unauthorized
    ELSE [subject |-> token.payload.sub,
          scopes |-> set(split(token.payload.scope)),
          roles |-> set(token.payload.roles),
          client_id |-> token.payload.client_id]

\* Variant: the subject is read from a claim the token does not carry.
_decode_token_anonymous(token) ==
    IF jwt_decode_raises(token, _public_key, AUTH_JWT_AUDIENCE) THEN Unauthorized
    ELSE [subject |-> "anonymous",
          scopes |-> set(split(token.payload.scope)),
          roles |-> set(token.payload.roles),
          client_id |-> token.payload.client_id]

\* _decode_token: the Principal of a bearer token, or the 401 it raises.
_decode_token(token) ==
    LET audience == AUTH_JWT_AUDIENCE
        payload == token.payload
    IN IF jwt_decode_raises(token, _public_key, audience) THEN Unauthorized
       ELSE [subject |-> IF payload.sub # None THEN payload.sub ELSE "anonymous",
             scopes |-> set(split(or_empty(payload.scope))),
             roles |-> set(or_empty(payload.roles)),
             client_id |-> payload.client_id]

(***************************************************************************)
(* AuthService (services.py).                                              *)
(***************************************************************************)
\* AuthService.__init__: {client.client_id: client for client in clients}
AuthService_init(clients) ==
    [id \in {clients[i].client_id : i \in DOMAIN clients} |->
        clients[CHOOSE i \in DOMAIN clients :
                    /\ clients[i].client_id = id
                    /\ \A k \in DOMAIN clients : clients[k].client_id = id => k <= i]]

\* _get_client raises "Unknown client"
unknown_client(client_id) == client_id = None \/ client_id \notin DOMAIN _clients

\* The scope set generate_token asks issue_tokens for.
requested_scopes_of(meta) ==
    IF truthy(meta.requested_scope) THEN set(split(meta.requested_scope))
    ELSE set(_clients[meta.client_id].scopes)

\* Variant: _get_client refuses only a missing client_id; the registry lookup of an
\* unregistered one raises KeyError.
generate_raises_keyerror(meta) ==
    IF meta.client_id = None THEN "Unknown client"
    ELSE IF meta.client_id \notin DOMAIN _clients THEN "KeyError"
    ELSE IF ~(requested_scopes_of(meta) \subseteq set(_clients[meta.client_id].scopes))
         THEN "Requested scope exceeds client grants"
    ELSE IF meta.grant_type \notin set(_clients[meta.client_id].allowed_grant_types)
         THEN "Unsupported grant type for client"
    ELSE "AttributeError"

\* Variant: the requested scope is not compared with the client's.
generate_raises_unchecked(meta) ==
    IF unknown_client(meta.client_id) THEN "Unknown client"
    ELSE IF meta.grant_type \notin set(_clients[meta.client_id].allowed_grant_types)
         THEN "Unsupported grant type for client"
    ELSE "AttributeError"

\* Variant: the grant type is not compared with the client's.
generate_raises_any_grant(meta) ==
    IF unknown_client(meta.client_id) THEN "Unknown client"
    ELSE IF ~(requested_scopes_of(meta) \subseteq set(_clients[meta.client_id].scopes))
         THEN "Requested scope exceeds client grants"
    ELSE "AttributeError"

\* What generate_token raises before it calls issue_tokens: one of its three
\* ValueErrors, or the AttributeError of reading meta.subject or client.roles.
generate_raises(meta) ==
    IF unknown_client(meta.client_id) THEN "Unknown client"
    ELSE IF ~(requested_scopes_of(meta) \subseteq set(_clients[meta.client_id].scopes))
         THEN "Requested scope exceeds client grants"
    ELSE IF meta.grant_type \notin set(_clients[meta.client_id].allowed_grant_types)
         THEN "Unsupported grant type for client"
    ELSE IF ~hasattr(meta, "subject") THEN "AttributeError"
    ELSE IF ~hasattr(_clients[meta.client_id], "roles") THEN "AttributeError"
    ELSE None

\* generate_token: validate the request against the client, then issue_tokens.
generate_token(meta) ==
    LET client == _clients[meta.client_id]
        subject == IF meta.subject # None THEN meta.subject ELSE client.client_id
    IN /\ \/ /\ generate_raises(meta) # None
             /\ UNCHANGED <<_refresh_tokens, issued>>
          \/ /\ generate_raises(meta) = None
             /\ Room
             /\ issue_tokens(subject, client.client_id, requested_scopes_of(meta),
                             client.roles, meta.audience)
       /\ UNCHANGED <<now, ticks, taken, pc, frame, AUTH_JWT_AUDIENCE, _clients, downstream>>

\* A call of JWTService.issue_tokens with arguments of the caller's choice.
JWTService_issue_tokens(a) ==
    /\ Room
    /\ Cardinality({i \in DOMAIN issued : issued[i].op = "issue"}) < MaxIssues
    /\ issue_tokens(a.subject, a.client_id, a.scopes, a.roles, a.audience)
    /\ UNCHANGED <<now, ticks, taken, pc, frame, AUTH_JWT_AUDIENCE, _clients, downstream>>

\* refresh_token: the call of rotate_refresh_token, up to the pop.
refresh_token(r, token) ==
    /\ pc[r] = "idle"
    /\ Room
    /\ _pop_refresh_token(r, token)
    /\ UNCHANGED <<now, ticks, issued, AUTH_JWT_AUDIENCE, _clients, downstream>>

\* Variant: the acknowledgment tells whether the token was in the store.
revoke_token_response_found(token) ==
    IF revoke_raises(token) # None
    THEN [status_code |-> "500", body |-> revoke_raises(token)]
    ELSE [status_code |-> "200",
          body |-> [status |-> IF _hash_refresh_token(token) \in DOMAIN _refresh_tokens
                               THEN "revoked" ELSE "unknown",
                    token |-> token]]

\* The response of POST /auth/revoke for the submitted token: an exception of
\* service.revoke_token would surface as a 500, otherwise the endpoint returns
\* {"status": "revoked", "token": request.token}.
revoke_token_response(token) ==
    IF revoke_raises(token) # None
    THEN [status_code |-> "500", body |-> revoke_raises(token)]
    ELSE [status_code |-> "200", body |-> [status |-> "revoked", token |-> token]]

\* revoke_token: revoke_refresh_token(token), acknowledged whatever the store held.
revoke_token(token) ==
    /\ revoke_refresh_token(token)
    /\ UNCHANGED <<now, ticks, issued, pc, frame, AUTH_JWT_AUDIENCE, _clients, downstream>>

(***************************************************************************)
(* The guarded endpoints of the downstream services (transaction_service   *)
(* and account_service presentation/api.py and dependencies.py).  FastAPI  *)
(* solves an endpoint's dependencies in the order of its parameters and    *)
(* calls the endpoint function only when none of them raised.              *)
(***************************************************************************)
NoCredentials == [absent |-> TRUE]
NoRequest == [absent |-> TRUE]
NoResponse == [absent |-> TRUE]
NoDecision == [absent |-> TRUE]

\* The claims of the bearer tokens presented downstream: a payments service, a
\* customer, a writer without a payments or risk role, a token without the optional
\* claims, an accounts administrator.
BearerClaims ==
    {[sub |-> "payments-gateway", client_id |-> "payments-gateway",
      scope |-> <<"transactions:read", SP, "transactions:write">>,
      roles |-> <<"payments">>],
     [sub |-> "alice", client_id |-> "web-portal",
      scope |-> <<"accounts:read", SP, "transactions:read">>,
      roles |-> <<"customer">>],
     [sub |-> "ledger", client_id |-> "web-portal",
      scope |-> <<"transactions:write">>,
      roles |-> <<"auditor", "customer">>],
     [sub |-> None, client_id |-> None, scope |-> NoneStr, roles |-> NoneStr],
     [sub |-> "backoffice", client_id |-> "risk-engine",
      scope |-> <<"accounts:read", SP, "accounts:write">>,
      roles |-> <<"risk">>]}

\* The key of somebody who is not the auth service.
attacker_key == "attacker.key"

\* A bearer token with the given claims, expiry and audience, signed with key.
bearer(claims, exp, aud, key) ==
    jwt_encode([iss |-> issuer, sub |-> claims.sub, iat |-> 0, exp |-> exp,
                scope |-> claims.scope, client_id |-> claims.client_id,
                roles |-> claims.roles, aud |-> aud], key)

\* The bearer tokens presented downstream: every claim set in a token of the auth
\* service that has not expired, with no audience, the deployment's or another; and
\* an expired token and a token signed by somebody else.
BearerTokens ==
    {bearer(c, access_token_ttl, aud, private_key) :
        c \in BearerClaims, aud \in {None, "fintech-api", "other-api"}}
    \cup {bearer(c, 0, None, private_key) : c \in BearerClaims}
    \cup {bearer(c, access_token_ttl, "fintech-api", attacker_key) : c \in BearerClaims}

Credentials == BearerTokens \cup {NoCredentials}

\* The Principals the bearer tokens decode to.
Principals ==
    {[subject |-> IF c.sub # None THEN c.sub ELSE "anonymous",
      scopes |-> set(split(or_empty(c.scope))),
      roles |-> set(or_empty(c.roles)),
      client_id |-> c.client_id] : c \in BearerClaims}

MissingBearer == [status_code |-> "401", detail |-> "Missing bearer token"]
InsufficientScopes == [status_code |-> "403", detail |-> "Insufficient scopes"]
InsufficientRole == [status_code |-> "403", detail |-> "Insufficient role"]
InvalidToken == [status_code |-> "401", detail |-> "Invalid token"]

\* get_current_principal: the Principal of the credentials, or the 401 it raises
get_current_principal(credentials) ==
    IF credentials = NoCredentials THEN MissingBearer
    ELSE _decode_token(credentials)

\* decode_bearer_token of the auth service: the payload, or the 401 it raises
decode_bearer_token(credentials) ==
    IF credentials = NoCredentials THEN MissingBearer
    ELSE IF jwt_decode_raises(credentials, _public_key, AUTH_JWT_AUDIENCE)
         THEN InvalidToken
    ELSE credentials.payload

\* Variant: any one of the required scopes is enough.
require_scopes_any(required_scopes, principal) ==
    IF required_scopes # <<>> /\ set(required_scopes) \cap principal.scopes = {}
    THEN InsufficientScopes
    ELSE principal

\* require_scopes(*required_scopes)(principal): the principal, or the 403 it raises
require_scopes(required_scopes, principal) ==
    IF ~(set(required_scopes) \subseteq principal.scopes) THEN InsufficientScopes
    ELSE principal

\* Variant: every one of the required roles is needed.
require_roles_all(required_roles, principal) ==
    IF ~(set(required_roles) \subseteq principal.roles) THEN InsufficientRole
    ELSE principal

\* require_roles(*required_roles)(principal): the principal, or the 403 it raises
require_roles(required_roles, principal) ==
    IF required_roles # <<>> /\ principal.roles \cap set(required_roles) = {}
    THEN InsufficientRole
    ELSE principal

(***************************************************************************)
(* The same guards as the account service and the monitoring service       *)
(* define them, each in its own presentation/dependencies.py.  The services *)
(* read the same AUTH_JWT_AUDIENCE and the same certificate.                *)
(***************************************************************************)
Services == {"transaction_service", "account_service", "monitoring_service"}

\* account_service _decode_token
account_service_decode_token(token) ==
    LET audience == AUTH_JWT_AUDIENCE
        payload == token.payload
    IN IF jwt_decode_raises(token, _public_key, audience) THEN Unauthorized
       ELSE [subject |-> IF payload.sub # None THEN payload.sub ELSE "anonymous",
             scopes |-> set(split(or_empty(payload.scope))),
             roles |-> set(or_empty(payload.roles)),
             client_id |-> payload.client_id]

\* account_service get_current_principal
account_service_get_current_principal(credentials) ==
    IF credentials = NoCredentials THEN MissingBearer
    ELSE account_service_decode_token(credentials)

\* account_service require_scopes
account_service_require_scopes(required_scopes, principal) ==
    IF ~(set(required_scopes) \subseteq principal.scopes) THEN InsufficientScopes
    ELSE principal

\* Variant: the account service asks for every one of the required roles.
account_service_require_roles_all(required_roles, principal) ==
    IF ~(set(required_roles) \subseteq principal.roles) THEN InsufficientRole
    ELSE principal

\* account_service require_roles
account_service_require_roles(required_roles, principal) ==
    IF required_roles # <<>> /\ principal.roles \cap set(required_roles) = {}
    THEN InsufficientRole
    ELSE principal

\* monitoring_service _decode_token
monitoring_service_decode_token(token) ==
    LET audience == AUTH_JWT_AUDIENCE
        payload == token.payload
    IN IF jwt_decode_raises(token, _public_key, audience) THEN Unauthorized
       ELSE [subject |-> IF payload.sub # None THEN payload.sub ELSE "anonymous",
             scopes |-> set(split(or_empty(payload.scope))),
             roles |-> set(or_empty(payload.roles)),
             client_id |-> payload.client_id]

\* monitoring_service get_current_principal
monitoring_service_get_current_principal(credentials) ==
    IF credentials = NoCredentials THEN MissingBearer
    ELSE monitoring_service_decode_token(credentials)

\* monitoring_service require_scopes
monitoring_service_require_scopes(required_scopes, principal) ==
    IF ~(set(required_scopes) \subseteq principal.scopes) THEN InsufficientScopes
    ELSE principal

\* monitoring_service require_roles
monitoring_service_require_roles(required_roles, principal) ==
    IF required_roles # <<>> /\ principal.roles \cap set(required_roles) = {}
    THEN InsufficientRole
    ELSE principal

\* The dependency of the given name as the given service defines it.
get_current_principal_in(service, credentials) ==
    CASE service = "transaction_service" -> get_current_principal(credentials)
      [] service = "account_service" -> account_service_get_current_principal(credentials)
      [] service = "monitoring_service" ->
             monitoring_service_get_current_principal(credentials)

require_scopes_in(service, required_scopes, principal) ==
    CASE service = "transaction_service" -> require_scopes(required_scopes, principal)
      [] service = "account_service" ->
             account_service_require_scopes(required_scopes, principal)
      [] service = "monitoring_service" ->
             monitoring_service_require_scopes(required_scopes, principal)

require_roles_in(service, required_roles, principal) ==
    CASE service = "transaction_service" -> require_roles(required_roles, principal)
      [] service = "account_service" ->
             account_service_require_roles(required_roles, principal)
      [] service = "monitoring_service" ->
             monitoring_service_require_roles(required_roles, principal)

\* The guarded endpoints: the scopes of their require_scopes dependency and the
\* roles of their require_roles dependency (NoneStr: the endpoint has none).
Endpoints ==
    {[name |-> "list_transactions", scopes |-> <<"transactions:read">>,
      roles |-> NoneStr],
     [name |-> "create_transaction", scopes |-> <<"transactions:write">>,
      roles |-> <<"payments", "risk">>],
     [name |-> "update_transaction", scopes |-> <<"transactions:write">>,
      roles |-> <<"payments", "risk">>],
     [name |-> "list_accounts", scopes |-> <<"accounts:read">>, roles |-> NoneStr],
     [name |-> "create_account", scopes |-> <<"accounts:write">>, roles |-> NoneStr],
     [name |-> "update_account", scopes |-> <<"accounts:write">>, roles |-> NoneStr],
     [name |-> "delete_account", scopes |-> <<"accounts:write">>, roles |-> NoneStr]}

\* The users the account service knows.
Users == {1}

\* Tuples of required scopes and of required roles handed to the dependencies:
\* empty, single, in either order, with a duplicate.
RequiredScopes ==
    {<<>>, <<"transactions:read">>, <<"transactions:write">>, <<"accounts:write">>,
     <<"transactions:write", "transactions:read">>,
     <<"transactions:read", "transactions:write">>,
     <<"transactions:read", "transactions:read">>,
     <<"accounts:read", "transactions:write">>}

RequiredRoles ==
    {<<>>, <<"payments">>, <<"risk">>, <<"payments", "risk">>, <<"risk", "payments">>,
     <<"customer", "customer">>, <<"auditor", "risk">>}

\* Variant: the require_roles dependency of the endpoint is not solved.
dependencies_raise_no_roles(endpoint, credentials) ==
    LET principal == get_current_principal(credentials)
    IN IF principal \in {MissingBearer, Unauthorized} THEN principal
       ELSE IF require_scopes(endpoint.scopes, principal) # principal
            THEN require_scopes(endpoint.scopes, principal)
       ELSE NoResponse

\* What solving the dependencies of the endpoint raises: the 401 of
\* get_current_principal, the 403 of require_scopes, the 403 of require_roles, in
\* this order, or NoResponse when the endpoint function is called.
dependencies_raise(endpoint, credentials) ==
    LET principal == get_current_principal(credentials)
    IN IF principal \in {MissingBearer, Unauthorized} THEN principal
       ELSE IF require_scopes(endpoint.scopes, principal) # principal
            THEN require_scopes(endpoint.scopes, principal)
       ELSE IF /\ endpoint.roles # NoneStr
               /\ require_roles(endpoint.roles, principal) # principal
            THEN require_roles(endpoint.roles, principal)
       ELSE NoResponse

\* A request for an endpoint arrives with its Authorization header.
receive(endpoint, credentials) ==
    /\ stage = "idle"
    /\ endpoint.name = "create_transaction" => Len(database.transactions) < MaxRows
    /\ endpoint.name = "create_account" => database.next_account <= MaxRows
    /\ request' = [endpoint |-> endpoint, credentials |-> credentials,
                   database |-> database]
    /\ stage' = "dependencies"
    /\ response' = NoResponse
    /\ invoked' = None
    /\ decision' = NoDecision
    /\ UNCHANGED <<database, auth>>

\* FastAPI solves the dependencies of the endpoint: an HTTPException one of them
\* raises is the response, and the endpoint function is not called.
solve_dependencies ==
    /\ stage = "dependencies"
    /\ IF dependencies_raise(request.endpoint, request.credentials) # NoResponse
       THEN /\ response' = dependencies_raise(request.endpoint, request.credentials)
            /\ stage' = "done"
       ELSE /\ response' = response
            /\ stage' = "endpoint"
    /\ UNCHANGED <<request, database, invoked, decision, auth>>

\* The responses of an endpoint function.
Ok(code) == [status_code |-> code, detail |-> None]
NotFound(detail) == [status_code |-> "404", detail |-> detail]

\* The endpoint function: it invokes the operation of its service on the database.
\* arg is the transaction_id or account_id of the path, or the user_id of the payload.
endpoint_function(arg) ==
    LET name == request.endpoint.name
        transactions == database.transactions
        accounts == database.accounts
    IN /\ stage = "endpoint"
       /\ stage' = "done"
       /\ invoked' = name
       /\ CASE name = "list_transactions" ->
                 /\ response' = Ok("200")
                 /\ database' = database
            [] name = "create_transaction" ->
                 /\ response' = Ok("201")
                 /\ database' = [database EXCEPT
                                   !.transactions = Append(transactions, "pending")]
            [] name = "update_transaction" ->
                 IF arg \in DOMAIN transactions
                 THEN /\ response' = Ok("200")
                      /\ database' = [database EXCEPT !.transactions[arg] = "settled"]
                 ELSE /\ response' = NotFound("Transaction not found")
                      /\ database' = database
            [] name = "list_accounts" ->
                 /\ response' = Ok("200")
                 /\ database' = database
            [] name = "create_account" ->
                 IF arg \in Users
                 THEN /\ response' = Ok("201")
                      /\ database' =
                             [database EXCEPT
                                !.accounts = [id \in DOMAIN accounts
                                                     \cup {database.next_account} |->
                                                 IF id \in DOMAIN accounts
                                                 THEN accounts[id] ELSE "active"],
                                !.next_account = database.next_account + 1]
                 ELSE /\ response' = NotFound("User not found")
                      /\ database' = database
            [] name = "update_account" ->
                 IF arg \in DOMAIN accounts
                 THEN /\ response' = Ok("200")
                      /\ database' = [database EXCEPT !.accounts[arg] = "frozen"]
                 ELSE /\ response' = NotFound("Account not found")
                      /\ database' = database
            [] name = "delete_account" ->
                 IF arg \in DOMAIN accounts
                 THEN /\ response' = Ok("204")
                      /\ database' =
                             [database EXCEPT
                                !.accounts = [id \in DOMAIN accounts \ {arg} |->
                                                 accounts[id]]]
                 ELSE /\ response' = NotFound("Account not found")
                      /\ database' = database
       /\ UNCHANGED <<request, decision, auth>>

\* The response has been sent, or the dependency called on its own has returned;
\* the service waits for the next request.
respond ==
    /\ stage \in {"done", "returned"}
    /\ stage' = "idle"
    /\ request' = NoRequest
    /\ response' = NoResponse
    /\ invoked' = None
    /\ decision' = NoDecision
    /\ UNCHANGED <<database, auth>>

\* The dependency of require_scopes(*required_scopes) of a service, called with a
\* principal.
require_scopes_dependency(service, required_scopes, principal) ==
    /\ stage = "idle"
    /\ decision' = [service |-> service, dependency |-> "require_scopes",
                    required |-> required_scopes, principal |-> principal,
                    credentials |-> NoCredentials,
                    result |-> require_scopes_in(service, required_scopes, principal)]
    /\ stage' = "returned"
    /\ UNCHANGED <<request, response, database, invoked, auth>>

\* The dependency of require_roles(*required_roles) of a service, called with a
\* principal.
require_roles_dependency(service, required_roles, principal) ==
    /\ stage = "idle"
    /\ decision' = [service |-> service, dependency |-> "require_roles",
                    required |-> required_roles, principal |-> principal,
                    credentials |-> NoCredentials,
                    result |-> require_roles_in(service, required_roles, principal)]
    /\ stage' = "returned"
    /\ UNCHANGED <<request, response, database, invoked, auth>>

\* get_current_principal of a service, called with the credentials of a request.
get_current_principal_dependency(service, credentials) ==
    /\ stage = "idle"
    /\ decision' = [service |-> service, dependency |-> "get_current_principal",
                    required |-> <<>>, principal |-> NoRequest,
                    credentials |-> credentials,
                    result |-> get_current_principal_in(service, credentials)]
    /\ stage' = "returned"
    /\ UNCHANGED <<request, response, database, invoked, auth>>

\* The clock advances.
Tick ==
    /\ ticks < MaxTicks
    /\ \E d \in TickSteps : now' = now + d
    /\ ticks' = ticks + 1
    /\ UNCHANGED <<_refresh_tokens, issued, taken, pc, frame, AUTH_JWT_AUDIENCE, _clients,
                   downstream>>

Init ==
    /\ _refresh_tokens = <<>>
    /\ now = 0
    /\ ticks = 0
    /\ issued = <<>>
    /\ taken = [t \in Tokens |-> None]
    /\ pc = [r \in Requests |-> "idle"]
    /\ frame = [r \in Requests |-> NoFrame]
    /\ AUTH_JWT_AUDIENCE \in EnvAudiences
    /\ _clients = AuthService_init(get_auth_clients)
    /\ request = NoRequest
    /\ stage = "idle"
    /\ response = NoResponse
    /\ database = [transactions |-> <<>>, accounts |-> <<>>, next_account |-> 1]
    /\ invoked = None
    /\ decision = NoDecision

Next ==
    \/ \E meta \in TokenRequestMeta : generate_token(meta)
    \/ \E a \in IssueArgs : JWTService_issue_tokens(a)
    \/ \E r \in Requests, token \in Presentable : refresh_token(r, token)
    \/ \E r \in Requests, scope \in ScopeStrings, expires_in \in ExpiresIn :
          rotate_refresh_token(r, scope, expires_in)
    \/ \E token \in Presentable : revoke_token(token)
    \/ Tick

Spec == Init /\ [][Next]_vars

\* A call of rotate_refresh_token that has popped its session runs to its end, and
\* the clock does not stop; which calls the clients make is up to them.
FairSpec ==
    /\ Spec
    /\ WF_vars(\E r \in Requests, scope \in ScopeStrings, expires_in \in ExpiresIn :
                   rotate_refresh_token(r, scope, expires_in))
    /\ WF_vars(Tick)

\* The downstream services at work, with the configuration of Init.
GuardNext ==
    \/ \E endpoint \in Endpoints, credentials \in Credentials :
          receive(endpoint, credentials)
    \/ solve_dependencies
    \/ \E arg \in 1..MaxRows : endpoint_function(arg)
    \/ respond
    \/ \E service \in Services, required_scopes \in RequiredScopes,
             principal \in Principals :
          require_scopes_dependency(service, required_scopes, principal)
    \/ \E service \in Services, required_roles \in RequiredRoles,
             principal \in Principals :
          require_roles_dependency(service, required_roles, principal)
    \/ \E service \in Services, credentials \in Credentials :
          get_current_principal_dependency(service, credentials)

GuardSpec == Init /\ [][GuardNext]_vars

(***************************************************************************)
(* Vocabulary of the properties.                                           *)
(***************************************************************************)
\* The refresh tokens returned so far by issue or rotate.
Returned == {token_urlsafe(n) : n \in DOMAIN issued}

\* The bundle that returned refresh token t.
BundleOf(t) == issued[t[2]]

\* The requests whose rotation holds the session of t.
Holders(t) == {r \in Requests : pc[r] = "rotating" /\ frame[r].token = t}

\* The bundles minted by a rotation of t.
Successors(t) == {j \in DOMAIN issued : issued[j].parent = t}

\* t is in the store.
Live(t) == _hash_refresh_token(t) \in DOMAIN _refresh_tokens

\* A rotation of t obtained the session, ended, and minted nothing.
RotationFailed(t) ==
    /\ t \in Returned
    /\ taken[t] = "rotate"
    /\ Holders(t) = {}
    /\ Successors(t) = {}

(***************************************************************************)
(* C1: rotation is one-shot.  A refresh token returned by issue or rotate   *)
(* and not yet presented is in the store, so the first rotate obtains its   *)
(* session; once a rotate has obtained it, every further rotate of the     *)
(* same token raises "Invalid refresh token", and only the rotate that     *)
(* obtained the session ever mints a successor.                            *)
(***************************************************************************)
C1_OneShotRotation ==
    \A t \in Returned :
        /\ taken[t] = None => _pop_raises(t) = None
        /\ taken[t] = "rotate" => _pop_raises(t) = "Invalid refresh token"
        /\ Successors(t) # {} => taken[t] = "rotate"
        /\ \A r \in Holders(t) :
               ~is_expired(frame[r].session)
                   => rotate_raises(frame[r].session, NoneStr) = None

\* A rotate of t has succeeded and a second rotate of t is refused.
C1_Witness ==
    \E t \in Returned :
        /\ Successors(t) # {}
        /\ Holders(t) = {}
        /\ _pop_raises(t) = "Invalid refresh token"

(***************************************************************************)
(* C2: of the requests that rotate the same live token concurrently, at    *)
(* most one holds its session or has minted its successor, and while one   *)
(* does, the others are refused with "Invalid refresh token": one token    *)
(* never yields two successor sessions.                                    *)
(***************************************************************************)
C2_OneWinner ==
    \A t \in Tokens :
        /\ Cardinality(Holders(t)) + Cardinality(Successors(t)) <= 1
        /\ Holders(t) # {} => _pop_raises(t) = "Invalid refresh token"

\* One request is between the pop and the registration while the other is free to
\* present the same token.
C2_Witness ==
    \E r1, r2 \in Requests :
        /\ r1 # r2
        /\ pc[r1] = "rotating"
        /\ pc[r2] = "idle"
        /\ ~is_expired(frame[r1].session)
        /\ _pop_raises(frame[r1].token) = "Invalid refresh token"

RECURSIVE Root(_)
Root(i) == IF issued[i].op = "issue" THEN i ELSE Root(issued[i].parent[2])

\* The scopes carried by the access token of bundle i.
AccessScopes(i) == set(split(issued[i].access_token.payload.scope))

WithinClient(session) ==
    /\ session.client_id \in DOMAIN _clients
    /\ session.scopes \subseteq set(_clients[session.client_id].scopes)

C6_ExceedingScopeRefused ==
    [][\A r \in Requests, scope \in ScopeStrings, expires_in \in ExpiresIn :
           /\ rotate_refresh_token(r, scope, expires_in)
           /\ ~is_expired(frame[r].session)
           /\ ~(requested_scope_of(frame[r].session, scope)
                    \subseteq frame[r].session.scopes)
           => /\ rotate_raises(frame[r].session, scope)
                     = "Requested scope exceeds original grant"
              /\ issued' = issued
              /\ _refresh_tokens' = _refresh_tokens]_vars

\* A rotate of t held its session, unexpired to this day, and minted nothing: it was
\* refused for its scope.
C6_Witness ==
    \E t \in Returned :
        /\ RotationFailed(t)
        /\ ~is_expired(BundleOf(t).session)

(***************************************************************************)
(* C7: a rotate whose session has expires_at <= now raises "Refresh token  *)
(* expired" whatever scope it asks for, mints nothing and does not put the *)
(* session back: the token is out of the store from the pop on, so a       *)
(* further rotate of it raises "Invalid refresh token".                    *)
(***************************************************************************)
C7_ExpiredIsConsumed ==
    /\ [](\A t \in Returned :
              Holders(t) # {} \/ RotationFailed(t)
                  => _pop_raises(t) = "Invalid refresh token")
    /\ [][\A r \in Requests, scope \in ScopeStrings, expires_in \in ExpiresIn :
              /\ rotate_refresh_token(r, scope, expires_in)
              /\ frame[r].session.expires_at <= now
              => /\ rotate_raises(frame[r].session, scope) = "Refresh token expired"
                 /\ issued' = issued
                 /\ _refresh_tokens' = _refresh_tokens
                 /\ _hash_refresh_token(frame[r].token) \notin DOMAIN _refresh_tokens']_vars

\* A rotate has popped a session at the very instant it expires.
C7_Witness ==
    \E r \in Requests :
        /\ pc[r] = "rotating"
        /\ frame[r].session.expires_at = now
        /\ _pop_raises(frame[r].token) = "Invalid refresh token"

(***************************************************************************)
(* C8: once revoke has removed a live token, every rotate of that token    *)
(* raises "Invalid refresh token": no request ever holds its session and   *)
(* no successor is ever minted from it.                                    *)
(***************************************************************************)
C8_RevocationTerminal ==
    \A t \in Tokens :
        taken[t] = "revoke" =>
            /\ _pop_raises(t) = "Invalid refresh token"
            /\ Holders(t) = {}
            /\ Successors(t) = {}

\* A returned token has been revoked while it was live, with room left to rotate.
C8_Witness ==
    \E t \in Returned :
        /\ taken[t] = "revoke"
        /\ Room
        /\ \E r \in Requests : pc[r] = "idle"

(***************************************************************************)
(* C9: revoke never raises, for a token that is live, rotated, revoked or  *)
(* never issued; after a revoke of t the token is out of the store and a   *)
(* second revoke of t would leave the store as the first left it, and a    *)
(* revoke of an absent token changes nothing.                              *)
(***************************************************************************)
C9_RevokeIdempotent ==
    /\ [](\A t \in Tokens : revoke_raises(t) = None)
    /\ [][\A t \in Presentable :
              revoke_token(t) =>
                  /\ _hash_refresh_token(t) \notin DOMAIN _refresh_tokens'
                  /\ dict_pop(_refresh_tokens', _hash_refresh_token(t)) = _refresh_tokens'
                  /\ ~Live(t) => _refresh_tokens' = _refresh_tokens]_vars

\* Tokens of all four kinds exist: live, rotated, revoked, never issued.
C9_Witness ==
    \E t, u, v \in Returned :
        /\ taken[t] = "revoke" /\ ~Live(t)
        /\ taken[u] = "rotate" /\ ~Live(u)
        /\ Live(v)
        /\ ~Live(ForgedToken)

\* The verdict of the signature and claim checks on bundle i's access token.
VerdictOfClaims(i) ==
    LET payload == issued[i].access_token.payload
    IN IF /\ now < payload.exp
          /\ AUTH_JWT_AUDIENCE = None \/ payload.aud = AUTH_JWT_AUDIENCE
       THEN [subject |-> payload.sub,
             scopes |-> AccessScopes(i),
             roles |-> set(payload.roles),
             client_id |-> payload.client_id]
       ELSE Unauthorized

(***************************************************************************)
(* C10: the outcome of verifying an access token is decided by its         *)
(* signature and its claims (exp, aud) alone: whether the refresh token    *)
(* issued with it is live, rotated or revoked, the access token is         *)
(* accepted until its own exp, and a revoke step changes the outcome for   *)
(* no access token.                                                        *)
(***************************************************************************)
C10_RevokeLeavesAccessTokens ==
    /\ [](\A i \in DOMAIN issued :
              _decode_token(issued[i].access_token) = VerdictOfClaims(i))
    /\ [][\A t \in Presentable :
              revoke_token(t) =>
                  \A i \in DOMAIN issued :
                      _decode_token(issued[i].access_token)'
                          = _decode_token(issued[i].access_token)]_vars

\* The refresh token of a bundle has been revoked and its access token is accepted.
C10_Witness ==
    \E i \in DOMAIN issued :
        /\ taken[issued[i].refresh_token] = "revoke"
        /\ _decode_token(issued[i].access_token) # Unauthorized

\* The step registers no refresh session and mints no token bundle.
NothingMinted ==
    /\ DOMAIN _refresh_tokens' \subseteq DOMAIN _refresh_tokens
    /\ issued' = issued

\* A request generate_token has no ValueError for: a registered client, an effective
\* scope within the client's scopes, a grant type the client allows.
ValidRequest(meta) ==
    /\ ~unknown_client(meta.client_id)
    /\ requested_scopes_of(meta) \subseteq set(_clients[meta.client_id].scopes)
    /\ meta.grant_type \in set(_clients[meta.client_id].allowed_grant_types)

(***************************************************************************)
(* C11: for every registered client and every requested scope within the   *)
(* client's allowed scopes (the client's full scope set when none is       *)
(* requested), generate_token returns an access token whose scope claim is *)
(* the sorted, space-joined requested set.  To return that token the call  *)
(* must raise nothing, which is the part stated here.                      *)
(***************************************************************************)
C11_IssueReturnsRequestedScope ==
    \A meta \in TokenRequestMeta :
        ValidRequest(meta) => generate_raises(meta) = None

(***************************************************************************)
(* C12: generate_token with a client_id that is missing or not in the      *)
(* registry raises "Unknown client", whatever else the request holds, and  *)
(* the call registers no refresh session and mints no token.               *)
(***************************************************************************)
C12_UnknownClient ==
    /\ [](\A meta \in TokenRequestMeta :
              meta.client_id = None \/ meta.client_id \notin DOMAIN _clients
                  => generate_raises(meta) = "Unknown client")
    /\ [][~NothingMinted =>
              \A meta \in TokenRequestMeta :
                  /\ meta.client_id = None \/ meta.client_id \notin DOMAIN _clients
                  => ~generate_token(meta)]_vars

\* Sessions are in the store while requests without a client_id and with an
\* unregistered one are refused.
C12_Witness ==
    /\ DOMAIN _refresh_tokens # {}
    /\ \E m1, m2 \in TokenRequestMeta :
           /\ m1.client_id = None
           /\ m2.client_id # None /\ m2.client_id \notin DOMAIN _clients
           /\ generate_raises(m1) = "Unknown client"
           /\ generate_raises(m2) = "Unknown client"

(***************************************************************************)
(* C13: generate_token for a registered client with a requested scope that *)
(* is not within the client's scopes raises "Requested scope exceeds       *)
(* client grants", whatever the grant type, and the call registers no      *)
(* refresh session and mints no token.                                     *)
(***************************************************************************)
C13_ScopeExceedsClient ==
    /\ [](\A meta \in TokenRequestMeta :
              /\ ~unknown_client(meta.client_id)
              /\ ~(requested_scopes_of(meta) \subseteq set(_clients[meta.client_id].scopes))
              => generate_raises(meta) = "Requested scope exceeds client grants")
    /\ [][~NothingMinted =>
              \A meta \in TokenRequestMeta :
                  /\ ~unknown_client(meta.client_id)
                  /\ ~(requested_scopes_of(meta) \subseteq set(_clients[meta.client_id].scopes))
                  => ~generate_token(meta)]_vars

\* Sessions are in the store while a registered client's request for a scope it does
\* not have is refused, with a grant type the client allows and with one it does not.
C13_Witness ==
    /\ DOMAIN _refresh_tokens # {}
    /\ \E m1, m2 \in TokenRequestMeta :
           /\ m1.client_id = m2.client_id
           /\ ~unknown_client(m1.client_id)
           /\ m1.requested_scope = m2.requested_scope
           /\ m1.grant_type \in set(_clients[m1.client_id].allowed_grant_types)
           /\ m2.grant_type \notin set(_clients[m2.client_id].allowed_grant_types)
           /\ generate_raises(m1) = "Requested scope exceeds client grants"
           /\ generate_raises(m2) = "Requested scope exceeds client grants"

(***************************************************************************)
(* C14: generate_token for a registered client with a grant type the       *)
(* client does not allow raises an error and registers no refresh session  *)
(* and mints no token; the error is "Unsupported grant type for client"    *)
(* when the requested scope is within the client's scopes, for the scope   *)
(* is checked first.                                                       *)
(***************************************************************************)
C14_UnsupportedGrant ==
    /\ [](\A meta \in TokenRequestMeta :
              /\ ~unknown_client(meta.client_id)
              /\ meta.grant_type \notin set(_clients[meta.client_id].allowed_grant_types)
              => /\ generate_raises(meta) # None
                 /\ requested_scopes_of(meta) \subseteq set(_clients[meta.client_id].scopes)
                        => generate_raises(meta) = "Unsupported grant type for client")
    /\ [][~NothingMinted =>
              \A meta \in TokenRequestMeta :
                  /\ ~unknown_client(meta.client_id)
                  /\ meta.grant_type \notin set(_clients[meta.client_id].allowed_grant_types)
                  => ~generate_token(meta)]_vars

\* C14 as stated: a registered client's request with a grant type it does not allow
\* raises "Unsupported grant type for client".
C14_AlwaysUnsupportedGrant ==
    \A meta \in TokenRequestMeta :
        /\ ~unknown_client(meta.client_id)
        /\ meta.grant_type \notin set(_clients[meta.client_id].allowed_grant_types)
        => generate_raises(meta) = "Unsupported grant type for client"

\* Sessions are in the store while a registered client's request with a grant type
\* it does not allow is refused for the grant type.
C14_Witness ==
    /\ DOMAIN _refresh_tokens # {}
    /\ \E meta \in TokenRequestMeta :
           /\ ~unknown_client(meta.client_id)
           /\ meta.grant_type \notin set(_clients[meta.client_id].allowed_grant_types)
           /\ generate_raises(meta) = "Unsupported grant type for client"

\* The audience check of the verifier lets the token of an issue_tokens call pass:
\* none is configured, or the call named none or the configured one.
AudienceAgrees(a) ==
    \/ AUTH_JWT_AUDIENCE = None
    \/ a.audience = None
    \/ a.audience = AUTH_JWT_AUDIENCE

(***************************************************************************)
(* C15: round trip.  The access token of issue_tokens(subject, client_id,  *)
(* scopes, roles), verified before its exp by a verifier whose audience    *)
(* check it passes, yields a Principal with the subject and client_id      *)
(* passed to issue_tokens and with the scopes and roles passed, as sets.   *)
(***************************************************************************)
C15_RoundTrip ==
    \A i \in DOMAIN issued :
        /\ issued[i].op = "issue"
        /\ now < issued[i].access_token.payload.exp
        /\ AudienceAgrees(issued[i].args)
        => _decode_token(issued[i].access_token)
               = [subject |-> issued[i].args.subject,
                  scopes |-> issued[i].args.scopes,
                  roles |-> set(issued[i].args.roles),
                  client_id |-> issued[i].args.client_id]

\* Two tokens are verified before their exp: one issued with two scopes, one with
\* roles passed out of order.
C15_Witness ==
    \E i, j \in DOMAIN issued :
        /\ issued[i].op = "issue" /\ issued[j].op = "issue"
        /\ Cardinality(issued[i].args.scopes) = 2
        /\ issued[j].args.roles # sorted(set(issued[j].args.roles))
        /\ now < issued[i].access_token.payload.exp
        /\ now < issued[j].access_token.payload.exp
        /\ _decode_token(issued[i].access_token) # Unauthorized
        /\ _decode_token(issued[j].access_token) # Unauthorized

\* The request in progress carries a bearer token the service accepts.
Authenticated ==
    /\ request # NoRequest
    /\ get_current_principal(request.credentials) \notin {MissingBearer, Unauthorized}

\* C16: require_scopes(*required) passes a principal, returning it, exactly when
\* every required scope is among the principal's scopes, whatever the order of the
\* required scopes, with duplicates, and with none required; otherwise it raises
\* 403 "Insufficient scopes". So does the scope guard of an endpoint.
C16_RequireScopesAllOf ==
    /\ (decision # NoDecision /\ decision.dependency = "require_scopes") =>
           /\ decision.result = decision.principal <=>
                  \A k \in DOMAIN decision.required :
                      decision.required[k] \in decision.principal.scopes
           /\ decision.result # decision.principal =>
                  decision.result = [status_code |-> "403",
                                     detail |-> "Insufficient scopes"]
    /\ (Authenticated /\ stage \in {"endpoint", "done"}) =>
           (response = [status_code |-> "403", detail |-> "Insufficient scopes"] <=>
                \E k \in DOMAIN request.endpoint.scopes :
                    request.endpoint.scopes[k] \notin
                        get_current_principal(request.credentials).scopes)

\* Two different scopes were required of a principal holding both and more.
C16_Witness ==
    /\ decision # NoDecision
    /\ decision.dependency = "require_scopes"
    /\ Len(decision.required) = 2
    /\ decision.required[1] # decision.required[2]
    /\ decision.result = decision.principal
    /\ decision.principal.roles # {}

\* C17: require_roles(*required) passes a principal, returning it, exactly when no
\* role is required or the principal holds at least one of the required roles;
\* otherwise it raises 403 "Insufficient role". So does the role guard of an endpoint.
C17_RequireRolesAnyOf ==
    /\ (decision # NoDecision /\ decision.dependency = "require_roles") =>
           /\ decision.result = decision.principal <=>
                  \/ Len(decision.required) = 0
                  \/ \E k \in DOMAIN decision.required :
                         decision.required[k] \in decision.principal.roles
           /\ decision.result # decision.principal =>
                  decision.result = [status_code |-> "403",
                                     detail |-> "Insufficient role"]
    /\ (Authenticated /\ stage \in {"endpoint", "done"}
          /\ request.endpoint.roles # NoneStr
          /\ \A k \in DOMAIN request.endpoint.scopes :
                 request.endpoint.scopes[k] \in
                     get_current_principal(request.credentials).scopes) =>
           (response = [status_code |-> "403", detail |-> "Insufficient role"] <=>
                \A k \in DOMAIN request.endpoint.roles :
                    request.endpoint.roles[k] \notin
                        get_current_principal(request.credentials).roles)

\* Two roles were required of a principal holding only the second of them.
C17_Witness ==
    /\ decision # NoDecision
    /\ decision.dependency = "require_roles"
    /\ Len(decision.required) = 2
    /\ decision.required[1] \notin decision.principal.roles
    /\ decision.required[2] \in decision.principal.roles
    /\ decision.result = decision.principal

\* The bearer token is signed by the auth service and has not expired.
WellSigned(token) ==
    /\ token.alg = "RS256"
    /\ token.signed_by = private_key
    /\ now < token.payload.exp

\* C18: the aud claim is checked only when an audience is configured. With none
\* configured a correctly signed, unexpired token is accepted whatever its aud claim,
\* present or absent; with one configured, a token whose aud differs from it or is
\* missing is rejected with 401, and a token whose aud equals it is accepted. This
\* holds of _decode_token, of decode_bearer_token and of a request to an endpoint.
C18_AudienceOnlyWhenConfigured ==
    /\ \A token \in BearerTokens :
           WellSigned(token) =>
               /\ AUTH_JWT_AUDIENCE = None =>
                      /\ _decode_token(token) # Unauthorized
                      /\ decode_bearer_token(token) = token.payload
               /\ (AUTH_JWT_AUDIENCE # None
                     /\ token.payload.aud # AUTH_JWT_AUDIENCE) =>
                      /\ _decode_token(token) =
                             [status_code |-> "401", detail |-> "Invalid bearer token"]
                      /\ decode_bearer_token(token) =
                             [status_code |-> "401", detail |-> "Invalid token"]
               /\ (AUTH_JWT_AUDIENCE # None
                     /\ token.payload.aud = AUTH_JWT_AUDIENCE) =>
                      /\ _decode_token(token) # Unauthorized
                      /\ decode_bearer_token(token) = token.payload
    /\ (/\ stage \in {"endpoint", "done"}
        /\ request.credentials # NoCredentials
        /\ WellSigned(request.credentials)) =>
           (response = [status_code |-> "401", detail |-> "Invalid bearer token"] <=>
                /\ AUTH_JWT_AUDIENCE # None
                /\ request.credentials.payload.aud # AUTH_JWT_AUDIENCE)

\* With an audience configured, a request with a correctly signed, unexpired token
\* that carries no aud claim has been answered with 401.
C18_Witness ==
    /\ AUTH_JWT_AUDIENCE # None
    /\ stage = "done"
    /\ request.credentials # NoCredentials
    /\ WellSigned(request.credentials)
    /\ request.credentials.payload.aud = None
    /\ response = Unauthorized
    /\ invoked = None

\* The request in progress fails verification, or its principal is rejected by the
\* require_scopes or the require_roles guard of its endpoint.
Rejected ==
    /\ request # NoRequest
    /\ LET principal == get_current_principal(request.credentials)
           endpoint == request.endpoint
       IN \/ principal \in {MissingBearer, Unauthorized}
          \/ require_scopes(endpoint.scopes, principal) # principal
          \/ /\ endpoint.roles # NoneStr
             /\ require_roles(endpoint.roles, principal) # principal

\* C19: a rejection short-circuits the business logic. While a request that fails
\* verification or a require_scopes / require_roles guard is in progress, the
\* endpoint function is never reached, no operation of the service is invoked and
\* the database stays as the request found it; the request ends with 401 or 403.
C19_RejectionShortCircuits ==
    /\ [](Rejected =>
            /\ stage # "endpoint"
            /\ invoked = None
            /\ database = request.database
            /\ stage = "done" => response.status_code \in {"401", "403"})
    /\ [][Rejected => database' = database /\ invoked' = None]_vars

\* A create_transaction request of a principal with the scope but without a
\* required role has ended with 403 on a database that already holds rows.
C19_Witness ==
    /\ stage = "done"
    /\ Rejected
    /\ request.endpoint.name = "create_transaction"
    /\ response = InsufficientRole
    /\ database.transactions # <<>>
    /\ DOMAIN database.accounts # {}

\* C20: the revocation endpoint leaks nothing about token existence. For every
\* token string a caller may submit, live, consumed, expired or never issued, the
\* response is the same success acknowledgment in every reachable store, and no
\* step of the service, a revoke of that token included, changes what the
\* response to it would be.
C20_RevokeLeaksNothing ==
    /\ [](\A t \in Presentable :
              revoke_token_response(t) =
                  [status_code |-> "200",
                   body |-> [status |-> "revoked", token |-> t]])
    /\ [][\A t \in Presentable :
              revoke_token_response(t)' = revoke_token_response(t)]_vars

\* A live token, a token consumed by a rotation, a token that expired and was then
\* revoked, and a token never issued can all be submitted.
C20_Witness ==
    \E t, u, v \in Returned :
        /\ Live(t) /\ ~is_expired(_refresh_tokens[_hash_refresh_token(t)])
        /\ taken[u] = "rotate" /\ ~Live(u)
        /\ taken[v] = "revoke" /\ ~Live(v) /\ is_expired(BundleOf(v).session)
        /\ ForgedToken \in Presentable /\ ~Live(ForgedToken)

\* The bundle minted by the step, when the step minted one.
Minted == issued'[Len(issued')]

\* C21: on a successful rotate the lifetime of the new access token, exp - iat, and
\* the returned expires_in equal the requested number of seconds when one is given,
\* zero and values above the configured lifetime included, and the configured
\* access_token_ttl (900 s) otherwise.
C21_RotateLifetime ==
    [][issued' # issued =>
          \A r \in Requests, scope \in ScopeStrings, expires_in \in ExpiresIn :
              rotate_refresh_token(r, scope, expires_in) =>
                  /\ Minted.expires_in =
                         IF expires_in = NoneInt THEN 900 ELSE expires_in[1]
                  /\ Minted.access_token.payload.exp
                         - Minted.access_token.payload.iat = Minted.expires_in]_vars

\* One rotation asked for a day, far above the configured lifetime, another for zero
\* seconds, and both were served.
C21_Witness ==
    \E i, j \in DOMAIN issued :
        /\ issued[i].op = "rotate" /\ issued[j].op = "rotate"
        /\ issued[i].expires_in = 86400
        /\ issued[i].access_token.payload.exp = issued[i].issued_at + 86400
        /\ issued[j].expires_in = 0
        /\ issued[j].access_token.payload.exp = issued[j].issued_at

\* C22: a successful rotate preserves identity. The session it stores for the new
\* refresh token and the access token it signs carry the subject, client_id and
\* roles of the consumed session, and the new session expires at now + refresh_ttl
\* (604800 s), a fresh window, whatever the consumed session's expires_at was.
C22_RotatePreservesIdentity ==
    [][\A r \in Requests :
          (pc[r] = "rotating" /\ pc'[r] = "idle" /\ issued' # issued) =>
              LET consumed == frame[r].session
                  stored == _refresh_tokens'[_hash_refresh_token(Minted.refresh_token)]
                  payload == Minted.access_token.payload
              IN /\ stored.subject = consumed.subject
                 /\ stored.client_id = consumed.client_id
                 /\ stored.roles = consumed.roles
                 /\ payload.sub = consumed.subject
                 /\ payload.client_id = consumed.client_id
                 /\ set(payload.roles) = consumed.roles
                 /\ stored.expires_at = now + 604800]_vars

\* A rotation made after the clock advanced stored a session for the same subject
\* with roles, whose window ends later than the consumed session's.
C22_Witness ==
    \E i \in DOMAIN issued :
        /\ issued[i].op = "rotate"
        /\ Live(issued[i].refresh_token)
        /\ issued[i].consumed.roles # {}
        /\ issued[i].consumed.subject # issued[i].consumed.client_id
        /\ _refresh_tokens[_hash_refresh_token(issued[i].refresh_token)].expires_at
               > issued[i].consumed.expires_at

\* The session stored for refresh token t has expired.
ExpiredInStore(t) ==
    /\ Live(t)
    /\ is_expired(_refresh_tokens[_hash_refresh_token(t)])

\* C23: every refresh session that expires is eventually removed from the store; no
\* expired session stays in the store forever, presented again or not.
C23_ExpiredEventuallyCollected ==
    \A t \in Tokens : ExpiredInStore(t) ~> ~Live(t)

\* Refresh token t was returned and no rotate or revoke has since found it.
Outstanding(t) == t \in Returned /\ taken[t] = None

\* C24: exactly one refresh session is live per outstanding refresh token. Every
\* returned refresh token that no rotate or revoke has taken since has one entry in
\* the store, under its hash, holding the session registered with it; every entry
\* of the store is under the hash of such a token, and none under a token itself.
C24_OneSessionPerToken ==
    /\ \A t \in Returned :
           Outstanding(t) =>
               /\ Cardinality({h \in DOMAIN _refresh_tokens :
                                   h \in {t, _hash_refresh_token(t)}}) = 1
               /\ _hash_refresh_token(t) \in DOMAIN _refresh_tokens
               /\ _refresh_tokens[_hash_refresh_token(t)] = BundleOf(t).session
    /\ \A h \in DOMAIN _refresh_tokens :
           /\ h \notin Tokens
           /\ Cardinality({t \in Returned :
                               Outstanding(t) /\ h = _hash_refresh_token(t)}) = 1

\* Two tokens are outstanding, one of them from a rotation, and a third was consumed.
C24_Witness ==
    \E t, u, v \in Returned :
        /\ t # u
        /\ Outstanding(t) /\ Outstanding(u)
        /\ BundleOf(u).op = "rotate"
        /\ taken[v] = "rotate"
        /\ Cardinality(DOMAIN _refresh_tokens) = 2

\* C25: the authorization decision is uniform across the service boundaries. For
\* every credentials, principal and required tuple a dependency of one service was
\* called with, get_current_principal, require_scopes and require_roles of the
\* transaction, account and monitoring services give the result that service gave:
\* the same principal, or the same 401 or 403.
C25_UniformDecision ==
    decision # NoDecision =>
        \A service \in Services :
            /\ decision.dependency = "get_current_principal" =>
                   get_current_principal_in(service, decision.credentials)
                       = decision.result
            /\ decision.dependency = "require_scopes" =>
                   require_scopes_in(service, decision.required, decision.principal)
                       = decision.result
            /\ decision.dependency = "require_roles" =>
                   require_roles_in(service, decision.required, decision.principal)
                       = decision.result

\* The monitoring service passed a principal holding only the second of two
\* required roles, as the account service does.
C25_Witness ==
    /\ decision # NoDecision
    /\ decision.service = "monitoring_service"
    /\ decision.dependency = "require_roles"
    /\ Len(decision.required) = 2
    /\ decision.required[1] \notin decision.principal.roles
    /\ decision.result = decision.principal
    /\ account_service_require_roles(decision.required, decision.principal)
           = decision.principal

\* What a call rotate_refresh_token(token, scope=scope) made now would raise: the
\* error of the pop, or the error of the checks on the popped session, or None.
rotate_refresh_token_raises(token, scope) ==
    IF _pop_raises(token) # None THEN _pop_raises(token)
    ELSE rotate_raises(_refresh_tokens[_hash_refresh_token(token)], scope)

\* Bundle j is the scenario's rotation: payments-gateway was issued scope
\* "transactions:write" and its refresh token was rotated asking for
\* "transactions:write".
ScenarioRotation(j) ==
    /\ issued[j].op = "rotate"
    /\ issued[j].requested_scope = {"transactions:write"}
    /\ BundleOf(issued[j].parent).op = "issue"
    /\ BundleOf(issued[j].parent).args.client_id = "payments-gateway"
    /\ BundleOf(issued[j].parent).scope = <<"transactions:write">>

C27_ScopeFailureConsumes ==
    /\ [](\A t \in Returned :
              (RotationFailed(t) /\ ~is_expired(BundleOf(t).session)) =>
                  /\ ~Live(t)
                  /\ \A scope \in ScopeStrings :
                         rotate_refresh_token_raises(t, scope) = "Invalid refresh token")
    /\ [][\A r \in Requests :
              (/\ pc[r] = "rotating"
               /\ pc'[r] = "idle"
               /\ ~is_expired(frame[r].session)
               /\ issued' = issued) =>
                  /\ _hash_refresh_token(frame[r].token) \notin DOMAIN _refresh_tokens'
                  /\ \A h \in DOMAIN _refresh_tokens' :
                         _refresh_tokens'[h] # frame[r].session
                             \/ h \in DOMAIN _refresh_tokens]_vars

\* A rotate of a token of a two-scope session asked for a scope outside it and
\* failed; the session is unexpired to this day and the token is gone, while another
\* token is live.
C27_Witness ==
    \E t, u \in Returned :
        /\ RotationFailed(t)
        /\ ~is_expired(BundleOf(t).session)
        /\ Cardinality(BundleOf(t).session.scopes) = 2
        /\ rotate_refresh_token_raises(t, NoneStr) = "Invalid refresh token"
        /\ Live(u)

\* The scope set passed to the issue call the chain of bundle j starts from.
OriginalGrant(j) == issued[Root(j)].args.scopes

\* C28: after any sequence of rotations starting from one issue call, the scope
\* claim of every access token minted along the chain, the scope returned with it
\* and the scopes of the Principal a service extracts from it are within the scope
\* set granted by that issue call, whatever the rotations in between asked for; when
\* that grant was within the client's allowed scopes, so is every one of them.
C28_ChainWithinOriginalGrant ==
    \A j \in DOMAIN issued :
        /\ AccessScopes(j) \subseteq OriginalGrant(j)
        /\ set(split(or_empty(issued[j].scope))) \subseteq OriginalGrant(j)
        /\ _decode_token(issued[j].access_token) # Unauthorized =>
               _decode_token(issued[j].access_token).scopes \subseteq OriginalGrant(j)
        /\ WithinClient(issued[Root(j)].session) =>
               AccessScopes(j) \subseteq
                   set(_clients[issued[Root(j)].args.client_id].scopes)

\* A chain issue -> rotate -> rotate of a two-scope grant: the first rotation asked
\* for one scope only, the second carries the whole grant again and no more.
C28_Witness ==
    \E j \in DOMAIN issued :
        /\ issued[j].op = "rotate"
        /\ issued[issued[j].parent[2]].op = "rotate"
        /\ Cardinality(AccessScopes(issued[j].parent[2])) = 1
        /\ AccessScopes(j) = OriginalGrant(j)
        /\ Cardinality(OriginalGrant(j)) = 2
        /\ WithinClient(issued[Root(j)].session)

\* The tokens a rotate or a revoke takes from the store in the step.
TakenNow == {t \in Tokens : taken'[t] # taken[t]}

\* C29: rotate(t) and revoke(t) change at most the store entry under hash(t), plus,
\* for a rotate that succeeds, one new entry for the fresh token. In every step of
\* the service, with requests interleaved or not, the only entry that leaves the
\* store is the one under the hash of the token the step's rotate or revoke was
\* given, a step that removes adds nothing, the only entry that comes in is the one
\* of the fresh token of the bundle the step returns, and every entry that stays is
\* unchanged and its token as rotatable as before.
C29_RotateRevokeFrame ==
    [][(_refresh_tokens' # _refresh_tokens \/ taken' # taken) =>
       LET removed == DOMAIN _refresh_tokens \ DOMAIN _refresh_tokens'
           added == DOMAIN _refresh_tokens' \ DOMAIN _refresh_tokens
       IN /\ removed \subseteq {_hash_refresh_token(t) : t \in TakenNow}
          /\ Cardinality(TakenNow) <= 1
          /\ removed # {} => added = {}
          /\ added \subseteq {_hash_refresh_token(token_urlsafe(Len(issued) + 1))}
          /\ added # {} => Len(issued') = Len(issued) + 1
          /\ issued' = issued => added = {}
          /\ \A h \in DOMAIN _refresh_tokens \cap DOMAIN _refresh_tokens' :
                 _refresh_tokens'[h] = _refresh_tokens[h]
          /\ now' = now =>
                 \A u \in Returned \ TakenNow :
                     rotate_refresh_token_raises(u, NoneStr)'
                         = rotate_refresh_token_raises(u, NoneStr)]_vars

\* A rotate of t has returned a new token while the session of another token, issued
\* before, is in the store as it was registered.
C29_Witness ==
    \E t, u \in Returned, j \in DOMAIN issued :
        /\ issued[j].parent = t
        /\ u # t /\ u # issued[j].refresh_token
        /\ u[2] < j
        /\ Live(u)
        /\ _refresh_tokens[_hash_refresh_token(u)] = BundleOf(u).session
        /\ Live(issued[j].refresh_token)

\* C30: revocation does not follow the rotation chain. Once a rotate has taken t,
\* a revoke of t, made later or while the rotate is still running, changes nothing:
\* the rotate keeps the session it popped and the token it returns stays in the
\* store, where a rotate of it succeeds while it is unexpired. Of a rotate and a
\* revoke of t exactly one takes t: if the rotate does, the successor it mints
\* comes to exist; if the revoke does, no successor ever exists and rotate of t
\* fails with "Invalid refresh token".
C30_RevokeDoesNotFollowChain ==
    /\ [](\A t \in Returned :
              /\ taken[t] = "rotate" =>
                     /\ dict_pop(_refresh_tokens, _hash_refresh_token(t)) = _refresh_tokens
                     /\ \A r \in Holders(t) : frame[r].session = BundleOf(t).session
                     /\ \A j \in Successors(t) :
                            Outstanding(issued[j].refresh_token) =>
                                /\ Live(issued[j].refresh_token)
                                /\ ~ExpiredInStore(issued[j].refresh_token) =>
                                       rotate_refresh_token_raises(
                                           issued[j].refresh_token, NoneStr) = None
              /\ taken[t] = "revoke" =>
                     /\ Successors(t) = {}
                     /\ Holders(t) = {}
                     /\ rotate_refresh_token_raises(t, NoneStr) = "Invalid refresh token")
    /\ [][(_refresh_tokens' # _refresh_tokens \/ taken' # taken) =>
              \A t \in Presentable : taken[t] = "rotate" => ~revoke_token(t)]_vars

\* A rotate of t has returned a token that is live and unexpired, and a revoke has
\* taken another token, of which no rotate holds the session or minted a successor.
C30_Witness ==
    \E t, u \in Returned :
        /\ \E j \in Successors(t) :
               /\ Live(issued[j].refresh_token)
               /\ ~ExpiredInStore(issued[j].refresh_token)
        /\ taken[u] = "revoke"
        /\ Successors(u) = {}
        /\ Holders(u) = {}

====
